---- MODULE Spec2Model ----
(***************************************************************************)
(* Model of the parser microservice: the Bull queue shared through Redis   *)
(* (wait / paused / active / delayed / completed / failed and the          *)
(* meta-paused key), the worker processes of src/worker.js with their job  *)
(* processor and graceful shutdown, the API server of src/server.js        *)
(* (startup, POST /jobs, GET result.json), the cron health check, the      *)
(* parser of src/services/parser.js, the queue cleanup of                  *)
(* src/scripts/cleanup.js and the rate limiter of src/middlewares/limits.js*)
(***************************************************************************)
EXTENDS Integers, Sequences, FiniteSets, TLC

\* ---------------------------------------------------------------- bounds
MaxJobs == 1
NumWorkers == 1
MaxSubmits == 2     \* POST /jobs requests
MaxTimeouts == 1    \* job timeouts
MaxExpiries == 2    \* job locks that expire
PeerWorkers == 2    \* worker processes where one outlives the others
FifoJobs == 2       \* job ids where the order of jobs matters
PoolJobs == 4       \* jobs that wait for one worker's processing slots
MaxLayers == 6      \* optional content groups of a document

FileNames == {"a.pdf", "b.pdf"}

\* ------------------------------------------------------ program constants
attempts == 3
backoffDelay == 5000
maxStalledCount == 1
removeOnComplete == 10
removeOnFail == 5
concurrency == 3

VARIABLES
  wait,        \* Redis list bull:parse_jobs:wait, head = next job to lease
  paused,      \* Redis list bull:parse_jobs:paused (jobs held back by a pause)
  metaPaused,  \* Redis key bull:parse_jobs:meta-paused
  active,      \* Redis list bull:parse_jobs:active
  delayed,     \* Redis zset bull:parse_jobs:delayed
  completed,   \* Redis zset bull:parse_jobs:completed, oldest first
  failed,      \* Redis zset bull:parse_jobs:failed, oldest first
  job,         \* Redis hashes bull:parse_jobs:<id> and their lock keys
  runs,        \* invocations of the processor function that are executing
  wpc,         \* per worker process: position in startup / shutdown
  timer,       \* per worker process: the force-shutdown timer
  seen,        \* per worker process: last getActive() result was empty
  spc,         \* API server: position in startup / in the POST /jobs handler
  req,         \* API server: the request being handled
  resp,        \* API server: the last POST /jobs response
  hpc,         \* health-check script position
  files,       \* upload dir: input files present in each job directory
  result,      \* upload dir: result.json of each job directory
  errorLog,    \* upload dir: error.json of each job directory
  pdf,         \* what the document uploaded under each job id holds
  count,       \* environment events still to come (submissions, timeouts,
               \* lock expiries)
  limits       \* API server: the rate limiter (requestCounts), its clock and
               \* its last answer

\* the job ids clients use and the worker processes of the deployment
Jobs == DOMAIN job
Workers == DOMAIN wpc

redisVars == <<wait, paused, metaPaused, active, delayed, completed, failed, job>>
workerVars == <<wpc, timer, seen>>
serverVars == <<spc, req, resp>>
fsVars == <<files, result, errorLog, pdf>>
vars == <<wait, paused, metaPaused, active, delayed, completed, failed, job,
          runs, wpc, timer, seen, spc, req, resp, hpc, files, result, errorLog,
          pdf, count, limits>>

\* the rate limiter of a server in production that has seen no request
LimiterIdle ==
  [nodeEnv |-> "production", now |-> 0, requestCounts |-> <<>>,
   admitted |-> <<>>, answer |-> [ip |-> 0, status |-> 0]]

NoJob == [exists |-> FALSE, data |-> "none", timestamp |-> 0,
          attemptsMade |-> 0, progress |-> 0,
          stalledCounter |-> 0, delay |-> 0, lock |-> 0, leases |-> 0,
          failedReason |-> "none"]

\* no result.json
NoResult == [stage |-> "none", layers |-> <<>>, maps |-> <<>>, confidence |-> 0]

\* a document without optional content groups, whose page renders
PlainPdf == [ocProps |-> FALSE, layerNames |-> <<>>, render |-> <<>>,
             albedo |-> TRUE, sharp |-> TRUE]

NoReq == [id |-> 0, name |-> "none", isPaused |-> FALSE]
NoResp == [id |-> 0, status |-> "none", dup |-> FALSE]

\* an empty Redis and upload directory, no process started yet, for a
\* deployment of nw worker processes and clients that use nj job ids
InitQueue(nj, nw, submits, timeouts, expiries) ==
  /\ wait = <<>> /\ paused = <<>> /\ metaPaused = FALSE
  /\ active = {} /\ delayed = {} /\ completed = <<>> /\ failed = <<>>
  /\ job = [j \in 1..nj |-> NoJob]
  /\ runs = {}
  /\ wpc = [w \in 1..nw |-> "new"]
  /\ timer = [w \in 1..nw |-> "off"]
  /\ seen = [w \in 1..nw |-> FALSE]
  /\ spc = "down" /\ req = NoReq /\ resp = NoResp
  /\ hpc = "idle"
  /\ files = [j \in 1..nj |-> {}]
  /\ result = [j \in 1..nj |-> NoResult]
  /\ errorLog = [j \in 1..nj |-> FALSE]
  /\ pdf = [j \in 1..nj |-> PlainPdf]
  /\ count = [submits |-> submits, timeouts |-> timeouts, expiries |-> expiries]

\* the deployment with a server in production
InitWith(nj, nw, submits, timeouts, expiries) ==
  /\ InitQueue(nj, nw, submits, timeouts, expiries)
  /\ limits = LimiterIdle

Init == InitWith(MaxJobs, NumWorkers, MaxSubmits, MaxTimeouts, MaxExpiries)

\* ------------------------------------------------------------ Bull: helpers
InSeq(s, j) == \E i \in 1..Len(s) : s[i] = j

Range(s) == {s[i] : i \in 1..Len(s)}

\* a terminal set that is never trimmed
keepAll(list, n) == list

\* removeOnComplete / removeOnFail given as a number: the terminal set keeps
\* its n newest entries
keepLast(list, n) ==
  IF Len(list) > n THEN SubSeq(list, Len(list) - n + 1, Len(list)) ELSE list

\* the job hashes of the entries in gone are deleted
DelJobs(jobs, gone) == [i \in DOMAIN jobs |-> IF i \in gone THEN NoJob ELSE jobs[i]]

\* parseQueue.clean(grace, type, limit): removes up to limit entries, oldest
\* first, that finished more than grace (24 h) ago
cleanLimit(type) == IF type = "completed" THEN 10 ELSE 5

RECURSIVE Pow2(_)
Pow2(n) == IF n = 0 THEN 1 ELSE 2 * Pow2(n - 1)

\* Bull's built-in 'fixed' backoff strategy
fixed(attemptsMade) == backoffDelay

\* Bull's built-in 'exponential' backoff strategy, applied to the delay
\* configured in the job options.
exponential(attemptsMade) == (Pow2(attemptsMade) - 1) * backoffDelay

\* job.getState()
getState(j) ==
  IF InSeq(completed, j) THEN "completed"
  ELSE IF InSeq(failed, j) THEN "failed"
  ELSE IF j \in delayed THEN "delayed"
  ELSE IF j \in active THEN "active"
  ELSE IF InSeq(wait, j) THEN "waiting"
  ELSE IF InSeq(paused, j) THEN "paused"
  ELSE "stuck"

Terminal(j) == InSeq(completed, j) \/ InSeq(failed, j)

\* a push that does not look at the meta-paused key
PushBackUnpaused(j) == wait' = Append(wait, j) /\ paused' = paused

\* list a waiting job is pushed to: addJob, updateDelaySet and
\* moveStalledJobsToWait all test the meta-paused key
PushBack(j) ==
  IF metaPaused THEN /\ paused' = Append(paused, j) /\ wait' = wait
                ELSE /\ wait' = Append(wait, j) /\ paused' = paused

\* a stalled job that is taken out of active and put nowhere
PushFrontLost(j) == UNCHANGED <<wait, paused>>

\* moveStalledJobsToWait pushes to the head of the list
PushFront(j) ==
  IF metaPaused THEN /\ paused' = <<j>> \o paused /\ wait' = wait
                ELSE /\ wait' = <<j>> \o wait /\ paused' = paused

\* a stall limit that is never reached
stalledNever(stalledCount) == FALSE

\* moveStalledJobsToWait: stalledCount > MAX_STALLED_JOB_COUNT
stalledTooOften(stalledCount) == stalledCount > maxStalledCount

\* queue.pause(): RENAME wait -> paused when wait exists, SET meta-paused
BullPause ==
  /\ IF wait # <<>> THEN paused' = wait /\ wait' = <<>>
                    ELSE UNCHANGED <<wait, paused>>
  /\ metaPaused' = TRUE

\* queue.resume(): RENAME paused -> wait when paused exists, DEL meta-paused
BullResume ==
  /\ IF paused # <<>> THEN wait' = paused /\ paused' = <<>>
                      ELSE UNCHANGED <<wait, paused>>
  /\ metaPaused' = FALSE

\* a worker id stands for one process (one pid): "new" before it is
\* started, "exit0" / "exit1" / "killed" after it has ended
Alive(w) == wpc[w] \notin {"new", "exit0", "exit1", "killed"}
Tracked(w) == {r \in runs : r.w = w /\ r.tracked}


\* --------------------------------------------------------- job processor
\* processor positions: pos = number of processor steps already executed
\*   1: progress(5)    2: pathExists + progress(10)   3: progress(20)
\*   4: updateProgress('loading')      5: parser.parseFile (writes result.json)
\*   6: updateProgress('finalizing')   7: progress(90)   8: progress(95)
\*   9: progress(98)  10: writeJson(result.json)        11: progress(100)
LastPos == 11
CatchPos == 20      \* inside the catch block, error.json not yet written
ThrownPos == 21     \* error re-thrown to Bull

progressMap(stage) ==
  CASE stage = "loading" -> 25
    [] stage = "ocg_extraction" -> 35
    [] stage = "layer_detection" -> 50
    [] stage = "texture_generation" -> 70
    [] stage = "material_mapping" -> 85
    [] stage = "finalizing" -> 95
    [] OTHER -> 20

\* a processor without the first checkpoint: it starts with progress(10)
ProgressOfSecond(s) ==
  CASE s = 1 -> 10
    [] s = 2 -> 10
    [] s = 3 -> 20
    [] s = 4 -> progressMap("loading")
    [] s = 6 -> progressMap("finalizing")
    [] s = 7 -> 90
    [] s = 8 -> 95
    [] s = 9 -> 98
    [] s = 11 -> 100

\* the value handed to job.progress() by processor step s
ProgressOf(s) ==
  CASE s = 1 -> 5
    [] s = 2 -> 10
    [] s = 3 -> 20
    [] s = 4 -> progressMap("loading")
    [] s = 6 -> progressMap("finalizing")
    [] s = 7 -> 90
    [] s = 8 -> 95
    [] s = 9 -> 98
    [] s = 11 -> 100

ProgressSteps == {1, 2, 3, 4, 6, 7, 8, 9, 11}
ParseStep == 5
SaveStep == 10

Move(r, p) == runs' = (runs \ {r}) \cup {[r EXCEPT !.pos = p]}

\* an error is thrown inside the try block
Throw(r, e) == runs' = (runs \ {r}) \cup {[r EXCEPT !.pos = CatchPos, !.err = e]}

\* a file-existence test that always answers yes
pathExistsAlways(j) == TRUE

\* fs.pathExists(filePath)
pathExists(j) == job[j].data \in files[j]

\* the job directory exists: it holds the upload, result.json or error.json
\* (fs.remove(jobDir) takes all of them away)
DirExists(j) == files[j] # {} \/ result[j].stage # "none" \/ errorLog[j]

\* ------------------------------------------------------------ the parser
\* Confidences are in thousandths (0.95 is 950).

\* ENABLE_OCG is not set to 'false'
enableOCG == TRUE

\* String.prototype.toLowerCase, one character
Lower(c) ==
  CASE c = "A" -> "a"
    [] c = "B" -> "b"
    [] c = "C" -> "c"
    [] c = "D" -> "d"
    [] c = "E" -> "e"
    [] c = "F" -> "f"
    [] c = "G" -> "g"
    [] c = "H" -> "h"
    [] c = "I" -> "i"
    [] c = "J" -> "j"
    [] c = "K" -> "k"
    [] c = "L" -> "l"
    [] c = "M" -> "m"
    [] c = "N" -> "n"
    [] c = "O" -> "o"
    [] c = "P" -> "p"
    [] c = "Q" -> "q"
    [] c = "R" -> "r"
    [] c = "S" -> "s"
    [] c = "T" -> "t"
    [] c = "U" -> "u"
    [] c = "V" -> "v"
    [] c = "W" -> "w"
    [] c = "X" -> "x"
    [] c = "Y" -> "y"
    [] c = "Z" -> "z"
    [] OTHER -> c

\* the lower-cased characters of s from position i on
RECURSIVE lowerFrom(_, _)
lowerFrom(s, i) ==
  IF i > Len(s) THEN "" ELSE Lower(SubSeq(s, i, i)) \o lowerFrom(s, i + 1)

\* String.prototype.toLowerCase
toLowerCase(s) == lowerFrom(s, 1)

\* String.prototype.includes for a keyword that is not empty
includes(s, t) ==
  \E i \in 1..(Len(s) - Len(t) + 1) : SubSeq(s, i, i + Len(t) - 1) = t

\* Object.entries(effectPatterns) of analyzeFilenameForEffects
effectPatterns ==
  << [type |-> "foil", keywords |-> <<"foil", "gold", "silver", "metallic", "hot">>],
     [type |-> "spotUV", keywords |-> <<"uv", "gloss", "varnish", "coating">>],
     [type |-> "emboss", keywords |-> <<"emboss", "raised", "deboss">>],
     [type |-> "diecut", keywords |-> <<"die", "cut", "cutting">>] >>

\* Object.entries(patterns) of detectEffectLayer
patterns ==
  << [type |-> "foil",
      keywords |-> <<"foil", "hot", "metallic", "gold", "silver", "copper",
                     "rose", "holo">>,
      subtypes |-> << [sub |-> "gold", keywords |-> <<"gold", "golden", "yellow">>],
                      [sub |-> "silver",
                       keywords |-> <<"silver", "chrome", "metallic", "white">>],
                      [sub |-> "copper", keywords |-> <<"copper", "bronze", "brown">>],
                      [sub |-> "rose_gold", keywords |-> <<"rose", "pink", "rosegold">>],
                      [sub |-> "holographic",
                       keywords |-> <<"holo", "rainbow", "prismatic">>] >>],
     [type |-> "spotUV",
      keywords |-> <<"uv", "spot", "gloss", "varnish", "coating", "clear">>,
      subtypes |-> << [sub |-> "gloss",
                       keywords |-> <<"gloss", "uv", "coating", "varnish">>] >>],
     [type |-> "emboss",
      keywords |-> <<"emboss", "raised", "deboss", "recessed", "relief", "pressed">>,
      subtypes |-> << [sub |-> "raised", keywords |-> <<"emboss", "raised", "relief">>],
                      [sub |-> "recessed",
                       keywords |-> <<"deboss", "recessed", "pressed">>] >>],
     [type |-> "diecut",
      keywords |-> <<"die", "cut", "cutting", "outline", "trim">>,
      subtypes |-> << [sub |-> "through", keywords |-> <<"die", "cut", "cutting">>] >>],
     [type |-> "edge",
      keywords |-> <<"edge", "paint", "ink">>,
      subtypes |-> << [sub |-> "painted", keywords |-> <<"paint", "ink", "color">>] >>] >>

\* every keyword the parser looks for
Keywords ==
  UNION {Range(effectPatterns[i].keywords) : i \in 1..Len(effectPatterns)}
    \cup UNION {Range(patterns[i].keywords) : i \in 1..Len(patterns)}
    \cup UNION {UNION {Range(patterns[i].subtypes[k].keywords) :
                         k \in 1..Len(patterns[i].subtypes)} :
                  i \in 1..Len(patterns)}
    \cup {"back", "rear"}

\* the file names and the layer names that occur
Names ==
  {"a.pdf", "b.pdf", "gold-foil-card.pdf", "uv-emboss.pdf", "copper-edge.pdf",
   "Gold Foil", "Artwork", "Spot UV", "Emboss", "Die Cut", "Edge Paint",
   "FOIL Back", "Rear Deboss", "Photo", "Pink Ink", "Spot UV Emboss",
   "Cutting Edge", "Copper", "Backdrop"}

\* the keywords that name.toLowerCase() includes
Contains ==
  [name \in Names |->
     {keyword \in Keywords :
        includes(toLowerCase(name), keyword)}]

\* name.includes(keyword) on the lower-cased name (the keywords of the
\* tables are in lower case)
Includes(name, keyword) == keyword \in Contains[name]

SomeIncluded(name, keywords) ==
  \E i \in 1..Len(keywords) : Includes(name, keywords[i])

\* the first element of a list that the name includes
FirstIncluded(name, keywords) ==
  keywords[CHOOSE i \in 1..Len(keywords) :
             /\ Includes(name, keywords[i])
             /\ \A k \in 1..(i - 1) : ~Includes(name, keywords[k])]

extractSubtypeFromKeyword(keyword) ==
  CASE keyword = "gold" -> "gold"
    [] keyword = "silver" -> "silver"
    [] keyword = "copper" -> "copper"
    [] keyword = "rose" -> "rose_gold"
    [] keyword = "uv" -> "gloss"
    [] keyword = "gloss" -> "gloss"
    [] keyword = "emboss" -> "raised"
    [] keyword = "deboss" -> "recessed"
    [] OTHER -> "default"

\* one effect per effect type, named by the first keyword of the type's list
\* that the file name includes
analyzeFilenameForEffects(filename) ==
  LET hit(p) == SomeIncluded(filename, p.keywords)
      hits == SelectSeq(effectPatterns, hit)
  IN [i \in 1..Len(hits) |->
        LET keyword == FirstIncluded(filename, hits[i].keywords)
        IN [type |-> hits[i].type, keyword |-> keyword,
            subtype |-> extractSubtypeFromKeyword(keyword)]]

generateDefaultBounds(index) ==
  [x |-> 15 + index * 5, y |-> 35, width |-> 25, height |-> 8]

\* options.dpi || 600
dpi == 600

\* the rendered file must be larger than this many bytes
minMaskBytes == 1000

\* a pixel counts when its alpha is greater than this
alphaCutoff == 50

NoMask == [ok |-> FALSE, confidence |-> 0]

\* What the rendering tools make of one layer: size is the number of bytes
\* of the file the isolated render leaves (0: the tool failed or left no
\* file), full tells whether the full-page render leaves a file, and mask is
\* the row of alpha values of the pixels of the mask file.
Isolated == [size |-> minMaskBytes + 1, full |-> TRUE, mask |-> <<255, 255>>]
FullPage == [size |-> 0, full |-> TRUE, mask |-> <<255, 255>>]
Unrendered == [size |-> 0, full |-> FALSE, mask |-> <<0, 0>>]

\* an isolated render that is accepted from the threshold on
tryAdvancedFromThreshold(out) == out.size >= minMaskBytes

\* the output exists and stats.size > 1000
tryAdvancedOCGRendering(out) == out.size > minMaskBytes

\* fs.pathExists(outputPath) after the full-page render
tryFullPageRender(out) == out.full

\* the isolated render first, the full-page render if that did not succeed
renderLayerMask(out) ==
  IF tryAdvancedOCGRendering(out) THEN [ok |-> TRUE, confidence |-> 950]
  ELSE IF tryFullPageRender(out) THEN [ok |-> TRUE, confidence |-> 700]
  ELSE NoMask

\* a fallback layer given the confidence of a mask rendered from the layer
fallbackAsRendered == renderLayerMask(Isolated).confidence

fallbackConfidence == 500

\* layers guessed from the file name; sharp: the masks can be written
fallbackLayerExtraction(filename, sharp) ==
  LET effects == analyzeFilenameForEffects(filename)
  IN IF sharp
     THEN [i \in 1..Len(effects) |->
             [id |-> [kind |-> "fallback", index |-> i - 1],
              name |-> effects[i].keyword,
              effectType |-> effects[i].type,
              effectSubtype |-> effects[i].subtype,
              side |-> "front",
              maskFile |-> [kind |-> "fallback", name |-> effects[i].type,
                            index |-> i - 1],
              bounds |-> generateDefaultBounds(i - 1),
              confidence |-> fallbackConfidence]]
     ELSE <<>>

NoEffect == [type |-> "none", subtype |-> "none", side |-> "none"]

\* a classification in which the last matching effect type wins
detectLastEffect(layerName) ==
  LET hit(p) == SomeIncluded(layerName, p.keywords)
      hits == SelectSeq(patterns, hit)
  IN IF hits = <<>> THEN NoEffect
     ELSE LET subs == SelectSeq(hits[Len(hits)].subtypes, hit)
          IN [type |-> hits[Len(hits)].type,
              subtype |-> IF subs = <<>> THEN "default" ELSE subs[1].sub,
              side |-> IF Includes(layerName, "back") \/ Includes(layerName, "rear")
                       THEN "back" ELSE "front"]

\* the first effect type with a keyword in the layer name, and its first
\* subtype with one
detectEffectLayer(layerName) ==
  LET hit(p) == SomeIncluded(layerName, p.keywords)
      hits == SelectSeq(patterns, hit)
  IN IF hits = <<>> THEN NoEffect
     ELSE LET subs == SelectSeq(hits[1].subtypes, hit)
          IN [type |-> hits[1].type,
              subtype |-> IF subs = <<>> THEN "default" ELSE subs[1].sub,
              side |-> IF Includes(layerName, "back") \/ Includes(layerName, "rear")
                       THEN "back" ELSE "front"]

\* Math.round(px * (25.4 / dpi) * 100): pixels to hundredths of a millimetre
pxToMm(px) == (2 * px * 2540 + dpi) \div (2 * dpi)

\* the bounding box of the pixels of the mask whose alpha is above the
\* cutoff, in hundredths of a millimetre; pixel x is mask[x + 1]
extractBoundsFromMask(mask) ==
  LET xs == {x \in 0..(Len(mask) - 1) : mask[x + 1] > alphaCutoff}
      minX == CHOOSE x \in xs : \A z \in xs : x <= z
      maxX == CHOOSE x \in xs : \A z \in xs : z <= x
  IN IF xs = {}
     THEN [x |-> 0, y |-> 0, width |-> 0, height |-> 0]
     ELSE [x |-> pxToMm(minX), y |-> pxToMm(0),
           width |-> pxToMm(maxX - minX), height |-> pxToMm(0 - 0)]

\* a loop that ends at the first layer whose mask cannot be rendered
layerMadeUntilFailure(doc, i) ==
  /\ detectEffectLayer(doc.layerNames[i]) # NoEffect
  /\ \A k \in 1..i : detectEffectLayer(doc.layerNames[k]) # NoEffect
                       => renderLayerMask(doc.render[k]).ok

\* the loop body pushes a layer for name i: the name is an effect and
\* renderLayerMask gave a mask
layerMade(doc, i) ==
  /\ detectEffectLayer(doc.layerNames[i]) # NoEffect
  /\ renderLayerMask(doc.render[i]).ok

\* the layers of the document: from its optional content groups when it
\* declares any, else guessed from the file name
extractOCGLayers(filename, doc) ==
  IF ~doc.ocProps \/ ~enableOCG
  THEN fallbackLayerExtraction(filename, doc.sharp)
  ELSE LET made(i) == layerMade(doc, i)
           idx == SelectSeq([i \in 1..Len(doc.layerNames) |-> i], made)
       IN [k \in 1..Len(idx) |->
             LET i == idx[k]
                 effectInfo == detectEffectLayer(doc.layerNames[i])
                 maskResult == renderLayerMask(doc.render[i])
             IN [id |-> [kind |-> "layer", index |-> i - 1],
                 name |-> doc.layerNames[i],
                 effectType |-> effectInfo.type,
                 effectSubtype |-> effectInfo.subtype,
                 side |-> effectInfo.side,
                 maskFile |-> [kind |-> "layer", name |-> doc.layerNames[i],
                               index |-> i - 1],
                 bounds |-> extractBoundsFromMask(doc.render[i].mask),
                 confidence |-> IF maskResult.confidence # 0
                                THEN maskResult.confidence ELSE 800]]

\* the albedo map if the page rendered
generateAlbedoMaps(albedo) == IF albedo THEN {"albedo_front"} ELSE {}

\* no die-cut information (<<>>), or the mask of the first diecut layer
processDiecut(layers) ==
  LET isDiecut(l) == l.effectType = "diecut"
      diecutLayers == SelectSeq(layers, isDiecut)
  IN IF diecutLayers = <<>> THEN <<>>
     ELSE << [mask |-> diecutLayers[1].maskFile, vector |-> "null"] >>

\* the keys of effectGroups
EffectTypes == {"foil", "spotUV", "emboss", "diecut", "edge"}

\* the maps object: the albedo map, and for every effect type with a
\* non-empty group the group; the diecut group starts with diecutInfo
buildMaterialMaps(layers, albedoMaps, diecutInfo) ==
  LET item(l) ==
        [side |-> l.side, color |-> l.effectSubtype, mask |-> l.maskFile,
         mode |-> IF l.effectSubtype = "recessed" THEN "deboss" ELSE "emboss",
         bounds |-> l.bounds]
      items(t) ==
        LET ofType(l) == l.effectType = t
            ls == SelectSeq(layers, ofType)
        IN [i \in 1..Len(ls) |-> item(ls[i])]
      effectGroups ==
        [t \in EffectTypes |->
           (IF t = "diecut" THEN diecutInfo ELSE <<>>) \o items(t)]
      keys == albedoMaps \cup {t \in EffectTypes : Len(effectGroups[t]) > 0}
  IN [key \in keys |->
        IF key \in albedoMaps THEN "albedo_front.png" ELSE effectGroups[key]]

Least(a, b) == IF a <= b THEN a ELSE b

\* a confidence without the final cap
calculateUncapped(layerCount, mapCount) ==
  300 + (IF layerCount > 0 THEN Least(400, layerCount * 100) ELSE 0)
      + (IF mapCount > 0 THEN Least(300, mapCount * 50) ELSE 0)

calculateConfidence(layerCount, mapCount) ==
  Least(980,
        300 + (IF layerCount > 0 THEN Least(400, layerCount * 100) ELSE 0)
            + (IF mapCount > 0 THEN Least(300, mapCount * 50) ELSE 0))

\* steps 6 to 8 of parseFile: the die-cut information, the material maps and
\* the manifest object made from the layers and the albedo maps
manifest(layers, albedoMaps) ==
  LET maps == buildMaterialMaps(layers, albedoMaps, processDiecut(layers))
  IN [stage |-> "parsed", layers |-> layers, maps |-> maps,
      confidence |-> calculateConfidence(Len(layers), Cardinality(DOMAIN maps))]

\* the manifest parseFile writes to result.json and returns
parseFile(filename, doc) ==
  manifest(extractOCGLayers(filename, doc), generateAlbedoMaps(doc.albedo))

\* a worker that takes jobs however many it is processing
freeSlotAlways(w) == TRUE

\* queue.process(name, concurrency, fn): the worker has that many processing
\* slots, and a slot is taken until the promise of its processor run settles
freeSlot(w) == Cardinality(Tracked(w)) < concurrency

\* getNextJob / moveToActive: RPOPLPUSH wait -> active, lock the job, call
\* the processor.  Every live Queue instance with a processor and a free
\* slot does this; queue.close() stops it.
Lease(w) ==
  /\ Alive(w) /\ wpc[w] # "closing"
  /\ freeSlot(w)
  /\ wait # <<>>
  /\ LET j == Head(wait) IN
       /\ wait' = Tail(wait)
       /\ active' = active \cup {j}
       /\ job' = [job EXCEPT ![j].lock = w, ![j].leases = @ + 1]
       /\ runs' = runs \cup {[w |-> w, j |-> j, n |-> job[j].leases + 1, pos |-> 0,
                              tracked |-> TRUE, am |-> job[j].attemptsMade,
                              err |-> "none", manifest |-> NoResult]}
  /\ UNCHANGED <<paused, metaPaused, delayed, completed, failed>>
  /\ UNCHANGED <<workerVars, serverVars, hpc, fsVars>>
  /\ count' = count
  /\ limits' = limits

\* job.progress(x): HSET progress, whatever the job's state
ProgressStep(r) ==
  /\ r \in runs /\ r.pos + 1 \in ProgressSteps
  /\ LET s == r.pos + 1 IN
       IF s = 2 /\ ~pathExists(r.j)
       THEN /\ Throw(r, "File not found")
            /\ job' = job
       ELSE /\ Move(r, s)
            /\ job' = [job EXCEPT ![r.j].progress = ProgressOf(s)]
  /\ UNCHANGED <<wait, paused, metaPaused, active, delayed, completed, failed>>
  /\ UNCHANGED <<workerVars, serverVars, hpc, fsVars>>
  /\ count' = count
  /\ limits' = limits

\* parser.parseFile: reads the input, writes the manifest to result.json and
\* returns it, or throws
ParseFile(r) ==
  /\ r \in runs /\ r.pos + 1 = ParseStep
  /\ \/ /\ job[r.j].data \in files[r.j]
        /\ result' = [result EXCEPT ![r.j] = parseFile(job[r.j].data, pdf[r.j])]
        /\ runs' = (runs \ {r}) \cup
                     {[r EXCEPT !.pos = ParseStep, !.manifest = result'[r.j]]}
     \/ /\ result' = result
        /\ Throw(r, "parse failed")
  /\ UNCHANGED <<redisVars, workerVars, serverVars, hpc, files, errorLog, pdf>>
  /\ count' = count
  /\ limits' = limits

\* a processor that only logs a failed write of the final manifest
SaveResultSwallowed(r) ==
  /\ r \in runs /\ r.pos + 1 = SaveStep
  /\ \/ /\ DirExists(r.j)
        /\ result' = [result EXCEPT ![r.j] =
                                   [r.manifest EXCEPT !.stage = "final"]]
     \/ result' = result
  /\ Move(r, SaveStep)
  /\ UNCHANGED <<redisVars, workerVars, serverVars, hpc, files, errorLog, pdf>>
  /\ count' = count
  /\ limits' = limits

\* Step 5 of the processor: write the final manifest
SaveResult(r) ==
  /\ r \in runs /\ r.pos + 1 = SaveStep
  /\ \/ /\ DirExists(r.j)
        /\ result' = [result EXCEPT ![r.j] =
                                   [r.manifest EXCEPT !.stage = "final"]]
        /\ Move(r, SaveStep)
     \/ /\ result' = result
        /\ Throw(r, "write failed")
  /\ UNCHANGED <<redisVars, workerVars, serverVars, hpc, files, errorLog, pdf>>
  /\ count' = count
  /\ limits' = limits

\* a catch block that lets the error of a failed error.json write escape
SaveErrorLogThrows(r) ==
  /\ r \in runs /\ r.pos = CatchPos
  /\ errorLog' = [errorLog EXCEPT ![r.j] = DirExists(r.j)]
  /\ runs' = (runs \ {r}) \cup
               {[r EXCEPT !.pos = ThrownPos,
                          !.err = IF DirExists(r.j) THEN @ ELSE "error log failed"]}
  /\ UNCHANGED <<redisVars, workerVars, serverVars, hpc, files, result, pdf>>
  /\ count' = count
  /\ limits' = limits

\* catch block: save error.json (a failed write is only logged), re-throw
SaveErrorLog(r) ==
  /\ r \in runs /\ r.pos = CatchPos
  /\ errorLog' = [errorLog EXCEPT ![r.j] = DirExists(r.j)]
  /\ Move(r, ThrownPos)
  /\ UNCHANGED <<redisVars, workerVars, serverVars, hpc, files, result, pdf>>
  /\ count' = count
  /\ limits' = limits

\* a finish script that moves the job whoever holds its lock
holdsLockAlways(j, w) == TRUE

\* moveToFinished acts only on a job that is in active under the lock of
\* the worker that reports the result
holdsLock(j, w) == j \in active /\ job[j].lock = w

\* moveToFailed with the retry test off by one (attemptsMade <= attempts)
moveToFailedOneMore(j, w, am, reason) ==
  IF holdsLock(j, w)
  THEN IF am + 1 <= attempts
       THEN /\ delayed' = delayed \cup {j}
            /\ failed' = failed
            /\ active' = active \ {j}
            /\ job' = [job EXCEPT ![j].attemptsMade = am + 1, ![j].lock = 0,
                                  ![j].delay = exponential(am + 1),
                                  ![j].failedReason = reason]
       ELSE /\ failed' = keepLast(Append(failed, j), removeOnFail)
            /\ delayed' = delayed
            /\ active' = active \ {j}
            /\ job' = DelJobs([job EXCEPT ![j].attemptsMade = am + 1,
                                          ![j].lock = 0,
                                          ![j].failedReason = reason],
                              Range(failed) \ Range(failed'))
  ELSE UNCHANGED <<active, delayed, failed, job>>

\* job.moveToFailed as called by Bull for a rejected processor promise
moveToFailed(j, w, am, reason) ==
  IF holdsLock(j, w)
  THEN IF am + 1 < attempts
       THEN /\ delayed' = delayed \cup {j}
            /\ failed' = failed
            /\ active' = active \ {j}
            /\ job' = [job EXCEPT ![j].attemptsMade = am + 1, ![j].lock = 0,
                                  ![j].delay = exponential(am + 1),
                                  ![j].failedReason = reason]
       ELSE /\ failed' = keepLast(Append(failed, j), removeOnFail)
            /\ delayed' = delayed
            /\ active' = active \ {j}
            /\ job' = DelJobs([job EXCEPT ![j].attemptsMade = am + 1,
                                          ![j].lock = 0,
                                          ![j].failedReason = reason],
                              Range(failed) \ Range(failed'))
  ELSE UNCHANGED <<active, delayed, failed, job>>

\* the processor returned: job.moveToCompleted
Complete(r) ==
  /\ r \in runs /\ r.tracked /\ r.pos = LastPos
  /\ runs' = runs \ {r}
  /\ IF holdsLock(r.j, r.w)
     THEN /\ active' = active \ {r.j}
          /\ completed' = keepLast(Append(completed, r.j), removeOnComplete)
          /\ job' = DelJobs([job EXCEPT ![r.j].lock = 0],
                            Range(completed) \ Range(completed'))
     ELSE UNCHANGED <<active, completed, job>>
  /\ UNCHANGED <<wait, paused, metaPaused, delayed, failed>>
  /\ UNCHANGED <<workerVars, serverVars, hpc, fsVars>>
  /\ count' = count
  /\ limits' = limits

\* the processor threw
Fail(r) ==
  /\ r \in runs /\ r.tracked /\ r.pos = ThrownPos
  /\ runs' = runs \ {r}
  /\ moveToFailed(r.j, r.w, r.am, r.err)
  /\ UNCHANGED <<wait, paused, metaPaused, completed>>
  /\ UNCHANGED <<workerVars, serverVars, hpc, fsVars>>
  /\ count' = count
  /\ limits' = limits

\* the job's timeout option (300000 ms) expired before the processor
\* settled: Bull fails the job; the processor function is not interrupted.
\* The timer is taken to expire inside parser.parseFile, the one
\* long-running step of the processor.
Timeout(r) ==
  /\ r \in runs /\ r.tracked /\ r.pos + 1 = ParseStep
  /\ count.timeouts > 0
  /\ runs' = (runs \ {r}) \cup {[r EXCEPT !.tracked = FALSE]}
  /\ moveToFailed(r.j, r.w, r.am, "timeout")
  /\ UNCHANGED <<wait, paused, metaPaused, completed>>
  /\ UNCHANGED <<workerVars, serverVars, hpc, fsVars>>
  /\ count' = [count EXCEPT !.timeouts = @ - 1]
  /\ limits' = limits

\* a processor run Bull no longer waits for comes to its end
Settle(r) ==
  /\ r \in runs /\ ~r.tracked /\ r.pos \in {LastPos, ThrownPos}
  /\ runs' = runs \ {r}
  /\ UNCHANGED <<redisVars, workerVars, serverVars, hpc, fsVars>>
  /\ count' = count
  /\ limits' = limits

\* updateDelaySet: a delayed job whose backoff elapsed joins the queue
Promote(j) ==
  /\ j \in delayed
  /\ (spc # "down" \/ \E w \in Workers : Alive(w))
  /\ delayed' = delayed \ {j}
  /\ PushBack(j)
  /\ UNCHANGED <<metaPaused, active, completed, failed, job>>
  /\ UNCHANGED <<runs, workerVars, serverVars, hpc, fsVars>>
  /\ count' = count
  /\ limits' = limits


\* ----------------------------------------------------- stalled-job check
\* the job lock (30 s) is not renewed because the process that took the
\* job is gone
LockExpire(j) ==
  /\ j \in active /\ job[j].lock # 0
  /\ ~\E r \in Tracked(job[j].lock) : r.j = j
  /\ job' = [job EXCEPT ![j].lock = 0]
  /\ UNCHANGED <<wait, paused, metaPaused, active, delayed, completed, failed>>
  /\ UNCHANGED <<runs, workerVars, serverVars, hpc, fsVars>>
  /\ count' = count
  /\ limits' = limits

\* the job lock is not renewed because the event loop of its worker is
\* blocked in the parser's execSync render call for longer than the lock
LockLapse(j) ==
  /\ j \in active /\ job[j].lock # 0
  /\ \E r \in Tracked(job[j].lock) : r.j = j /\ r.pos + 1 = ParseStep
  /\ count.expiries > 0
  /\ job' = [job EXCEPT ![j].lock = 0]
  /\ UNCHANGED <<wait, paused, metaPaused, active, delayed, completed, failed>>
  /\ UNCHANGED <<runs, workerVars, serverVars, hpc, fsVars>>
  /\ count' = [count EXCEPT !.expiries = @ - 1]
  /\ limits' = limits

\* moveStalledJobsToWait, run every stalledInterval by each worker
StallCheck(w, j) ==
  /\ Alive(w)
  /\ j \in active /\ job[j].lock = 0
  /\ active' = active \ {j}
  /\ IF stalledTooOften(job[j].stalledCounter + 1)
     THEN /\ failed' = Append(failed, j)
          /\ job' = [job EXCEPT ![j].stalledCounter = @ + 1,
                                ![j].failedReason = "stalled"]
          /\ UNCHANGED <<wait, paused>>
     ELSE /\ failed' = failed
          /\ job' = [job EXCEPT ![j].stalledCounter = @ + 1]
          /\ PushFront(j)
  /\ UNCHANGED <<metaPaused, delayed, completed>>
  /\ UNCHANGED <<runs, workerVars, serverVars, hpc, fsVars>>
  /\ count' = count
  /\ limits' = limits

\* -------------------------------------------------------- worker process
WorkerStart(w) ==
  /\ wpc[w] = "new"
  /\ wpc' = [wpc EXCEPT ![w] = "starting"]
  /\ UNCHANGED <<redisVars, runs, timer, seen, serverVars, hpc, fsVars>>
  /\ count' = count
  /\ limits' = limits

\* initializeQueue: await parseQueue.resume()
InitResume(w) ==
  /\ wpc[w] = "starting"
  /\ BullResume
  /\ wpc' = [wpc EXCEPT ![w] = "resumed"]
  /\ UNCHANGED <<active, delayed, completed, failed, job>>
  /\ UNCHANGED <<runs, timer, seen, serverVars, hpc, fsVars>>
  /\ count' = count
  /\ limits' = limits

\* initializeQueue goes on: parseQueue.clean of completed and of failed,
\* queue status; startWorker is done
InitDone(w) ==
  /\ wpc[w] = "resumed"
  /\ \E kc \in 0..cleanLimit("completed"), kf \in 0..cleanLimit("failed") :
       /\ kc <= Len(completed) /\ kf <= Len(failed)
       /\ completed' = SubSeq(completed, kc + 1, Len(completed))
       /\ failed' = SubSeq(failed, kf + 1, Len(failed))
       /\ job' = DelJobs(job, (Range(completed) \ Range(completed'))
                               \cup (Range(failed) \ Range(failed')))
  /\ wpc' = [wpc EXCEPT ![w] = "ready"]
  /\ UNCHANGED <<wait, paused, metaPaused, active, delayed>>
  /\ UNCHANGED <<runs, timer, seen, serverVars, hpc, fsVars>>
  /\ count' = count
  /\ limits' = limits

\* SIGTERM / SIGINT: gracefulShutdown starts the force-shutdown timer
gracefulShutdown(w) ==
  /\ wpc[w] = "ready"
  /\ timer' = [timer EXCEPT ![w] = "armed"]
  /\ wpc' = [wpc EXCEPT ![w] = "sd_pause"]
  /\ UNCHANGED <<redisVars, runs, seen, serverVars, hpc, fsVars>>
  /\ count' = count
  /\ limits' = limits

\* await parseQueue.pause()
ShutdownPause(w) ==
  /\ wpc[w] = "sd_pause"
  /\ BullPause
  /\ wpc' = [wpc EXCEPT ![w] = "sd_read"]
  /\ UNCHANGED <<active, delayed, completed, failed, job>>
  /\ UNCHANGED <<runs, timer, seen, serverVars, hpc, fsVars>>
  /\ count' = count
  /\ limits' = limits

\* const activeJobs = await parseQueue.getActive()
ShutdownGetActive(w) ==
  /\ wpc[w] = "sd_read"
  /\ seen' = [seen EXCEPT ![w] = (active = {})]
  /\ wpc' = [wpc EXCEPT ![w] = "sd_decide"]
  /\ UNCHANGED <<redisVars, runs, timer, serverVars, hpc, fsVars>>
  /\ count' = count
  /\ limits' = limits

\* the 2 s interval: const stillActive = await parseQueue.getActive()
PollGetActive(w) ==
  /\ wpc[w] = "sd_wait"
  /\ seen' = [seen EXCEPT ![w] = (active = {})]
  /\ wpc' = [wpc EXCEPT ![w] = "poll_decide"]
  /\ UNCHANGED <<redisVars, runs, timer, serverVars, hpc, fsVars>>
  /\ count' = count
  /\ limits' = limits

\* activeJobs.length > 0: start the 2 s interval; else
\* clearTimeout(shutdownTimer) and finalizeShutdown(), which calls
\* parseQueue.close()
ShutdownDecide(w) ==
  /\ wpc[w] = "sd_decide"
  /\ IF seen[w]
     THEN /\ timer' = [timer EXCEPT ![w] = "cancelled"]
          /\ wpc' = [wpc EXCEPT ![w] = "closing"]
     ELSE /\ timer' = timer
          /\ wpc' = [wpc EXCEPT ![w] = "sd_wait"]
  /\ UNCHANGED <<redisVars, runs, seen, serverVars, hpc, fsVars>>
  /\ count' = count
  /\ limits' = limits

\* interval callback: stillActive.length === 0: clearInterval,
\* clearTimeout(shutdownTimer), finalizeShutdown(); else keep waiting
PollDecide(w) ==
  /\ wpc[w] = "poll_decide"
  /\ IF seen[w]
     THEN /\ timer' = [timer EXCEPT ![w] = "cancelled"]
          /\ wpc' = [wpc EXCEPT ![w] = "closing"]
     ELSE /\ timer' = timer
          /\ wpc' = [wpc EXCEPT ![w] = "sd_wait"]
  /\ UNCHANGED <<redisVars, runs, seen, serverVars, hpc, fsVars>>
  /\ count' = count
  /\ limits' = limits

Gone(w, how) ==
  /\ wpc' = [wpc EXCEPT ![w] = how]
  /\ timer' = [timer EXCEPT ![w] = "off"]
  /\ seen' = [seen EXCEPT ![w] = FALSE]
  /\ runs' = {r \in runs : r.w # w}

\* finalizeShutdown: close() has waited for the jobs this process is
\* running, then process.exit(0)
finalizeShutdown(w) ==
  /\ wpc[w] = "closing"
  /\ Tracked(w) = {}
  /\ Gone(w, "exit0")
  /\ UNCHANGED <<redisVars, serverVars, hpc, fsVars>>
  /\ count' = count
  /\ limits' = limits

\* the force-shutdown timer fires: process.exit(1)
ForceShutdown(w) ==
  /\ timer[w] = "armed"
  /\ Gone(w, "exit1")
  /\ UNCHANGED <<redisVars, serverVars, hpc, fsVars>>
  /\ count' = count
  /\ limits' = limits

\* the process is killed (SIGKILL, supervisor memory restart)
Kill(w) ==
  /\ Alive(w)
  /\ Gone(w, "killed")
  /\ UNCHANGED <<redisVars, serverVars, hpc, fsVars>>
  /\ count' = count
  /\ limits' = limits

\* ------------------------------------------------------------- API server
ServerStart ==
  /\ spc = "down"
  /\ spc' = "init_resume"
  /\ UNCHANGED <<redisVars, runs, workerVars, req, resp, hpc, fsVars>>
  /\ count' = count
  /\ limits' = limits

\* initializeQueue: parseQueue.resume(), redis.del(paused), redis.del(meta-paused)
ServerInitResume ==
  /\ spc = "init_resume"
  /\ BullResume
  /\ spc' = "init_del1"
  /\ UNCHANGED <<active, delayed, completed, failed, job>>
  /\ UNCHANGED <<runs, workerVars, req, resp, hpc, fsVars>>
  /\ count' = count
  /\ limits' = limits

ServerInitDelPaused ==
  /\ spc = "init_del1"
  /\ paused' = <<>>
  /\ spc' = "init_del2"
  /\ UNCHANGED <<wait, metaPaused, active, delayed, completed, failed, job>>
  /\ UNCHANGED <<runs, workerVars, req, resp, hpc, fsVars>>
  /\ count' = count
  /\ limits' = limits

ServerInitDelMeta ==
  /\ spc = "init_del2"
  /\ metaPaused' = FALSE
  /\ spc' = "init_status"
  /\ UNCHANGED <<wait, paused, active, delayed, completed, failed, job>>
  /\ UNCHANGED <<runs, workerVars, req, resp, hpc, fsVars>>
  /\ count' = count
  /\ limits' = limits

\* initializeQueue returns (getWaiting, getActive, initial queue status)
ServerInitDone ==
  /\ spc = "init_status"
  /\ spc' = "idle"
  /\ UNCHANGED <<redisVars, runs, workerVars, req, resp, hpc, fsVars>>
  /\ count' = count
  /\ limits' = limits

\* POST /jobs up to the file move; on a failed move the catch block removes
\* the job directory and answers 500
SubmitUpload(id, name) ==
  /\ spc = "idle"
  /\ count.submits > 0
  /\ IF name \in files[id]
     THEN /\ files' = [files EXCEPT ![id] = {}]
          /\ result' = [result EXCEPT ![id] = NoResult]
          /\ errorLog' = [errorLog EXCEPT ![id] = FALSE]
          /\ resp' = [id |-> id, status |-> "error",
                      dup |-> job[id].exists /\ ~Terminal(id)]
          /\ UNCHANGED <<spc, req>>
     ELSE /\ files' = [files EXCEPT ![id] = @ \cup {name}]
          /\ req' = [id |-> id, name |-> name, isPaused |-> FALSE]
          /\ spc' = "check"
          /\ UNCHANGED <<result, errorLog, resp>>
  /\ UNCHANGED <<redisVars, runs, workerVars, hpc, pdf>>
  /\ count' = [count EXCEPT !.submits = @ - 1]
  /\ limits' = limits

\* const isPaused = await redis.exists('bull:parse_jobs:paused')
SubmitCheckPaused ==
  /\ spc = "check"
  /\ req' = [req EXCEPT !.isPaused = (paused # <<>>)]
  /\ spc' = IF paused # <<>> THEN "resume" ELSE "add"
  /\ UNCHANGED <<redisVars, runs, workerVars, resp, hpc, fsVars>>
  /\ count' = count
  /\ limits' = limits

SubmitResume ==
  /\ spc = "resume"
  /\ BullResume
  /\ spc' = "del1"
  /\ UNCHANGED <<active, delayed, completed, failed, job>>
  /\ UNCHANGED <<runs, workerVars, req, resp, hpc, fsVars>>
  /\ count' = count
  /\ limits' = limits

SubmitDelPaused ==
  /\ spc = "del1"
  /\ paused' = <<>>
  /\ spc' = "del2"
  /\ UNCHANGED <<wait, metaPaused, active, delayed, completed, failed, job>>
  /\ UNCHANGED <<runs, workerVars, req, resp, hpc, fsVars>>
  /\ count' = count
  /\ limits' = limits

SubmitDelMeta ==
  /\ spc = "del2"
  /\ metaPaused' = FALSE
  /\ spc' = "add"
  /\ UNCHANGED <<wait, paused, active, delayed, completed, failed, job>>
  /\ UNCHANGED <<runs, workerVars, req, resp, hpc, fsVars>>
  /\ count' = count
  /\ limits' = limits

\* Date.now() at the moment a job is created: later than the creation time
\* of every job there is
Now == 1 + Cardinality({j \in Jobs : job[j].exists})

\* parseQueue.add('parse', jobData, {jobId, attempts: 3, backoff, timeout}):
\* Bull's addJob returns the id of an existing job hash without touching it;
\* then res.json({jobId, status: 'queued'})
SubmitAdd ==
  /\ spc = "add"
  /\ IF job[req.id].exists
     THEN UNCHANGED <<wait, paused, job>>
     ELSE /\ job' = [job EXCEPT ![req.id] = [NoJob EXCEPT !.exists = TRUE,
                                                          !.data = req.name,
                                                          !.timestamp = Now]]
          /\ PushBack(req.id)
  /\ resp' = [id |-> req.id, status |-> "queued",
              dup |-> job[req.id].exists /\ ~Terminal(req.id)]
  /\ req' = NoReq
  /\ spc' = "idle"
  /\ UNCHANGED <<metaPaused, active, delayed, completed, failed>>
  /\ UNCHANGED <<runs, workerVars, hpc, fsVars>>
  /\ count' = count
  /\ limits' = limits

\* GET /jobs/:jobId/result.json
GetResult(j) == IF result[j].stage # "none" THEN "manifest" ELSE "RESULT_NOT_FOUND"

\* ------------------------------------------------------ health-check script
\* isPaused = queueKeys.includes('bull:parse_jobs:paused')
HealthCheckRead ==
  /\ hpc = "idle"
  /\ paused # <<>>
  /\ hpc' = "del1"
  /\ UNCHANGED <<redisVars, runs, workerVars, serverVars, fsVars>>
  /\ count' = count
  /\ limits' = limits

HealthCheckDelPaused ==
  /\ hpc = "del1"
  /\ paused' = <<>>
  /\ hpc' = "del2"
  /\ UNCHANGED <<wait, metaPaused, active, delayed, completed, failed, job>>
  /\ UNCHANGED <<runs, workerVars, serverVars, fsVars>>
  /\ count' = count
  /\ limits' = limits

HealthCheckDelMeta ==
  /\ hpc = "del2"
  /\ metaPaused' = FALSE
  /\ hpc' = "idle"
  /\ UNCHANGED <<wait, paused, active, delayed, completed, failed, job>>
  /\ UNCHANGED <<runs, workerVars, serverVars, fsVars>>
  /\ count' = count
  /\ limits' = limits

\* ---------------------------------------------------------- specification
\* the job processor and Bull's handling of its outcome
Processing ==
  \/ \E w \in Workers : Lease(w)
  \/ \E r \in runs : ProgressStep(r)
  \/ \E r \in runs : ParseFile(r)
  \/ \E r \in runs : SaveResult(r)
  \/ \E r \in runs : SaveErrorLog(r)
  \/ \E r \in runs : Complete(r)
  \/ \E r \in runs : Fail(r)
  \/ \E j \in Jobs : Promote(j)

\* worker start-up
Startup ==
  \/ \E w \in Workers : WorkerStart(w)
  \/ \E w \in Workers : InitResume(w)
  \/ \E w \in Workers : InitDone(w)

\* the cron health check
HealthCheck ==
  \/ HealthCheckRead
  \/ HealthCheckDelPaused
  \/ HealthCheckDelMeta

\* worker start-up and kill
WorkerUp ==
  \/ Startup
  \/ \E w \in Workers : Kill(w)

\* graceful shutdown of worker process w
Shutdown(w) ==
  \/ gracefulShutdown(w)
  \/ ShutdownPause(w)
  \/ ShutdownGetActive(w)
  \/ PollGetActive(w)
  \/ ShutdownDecide(w)
  \/ PollDecide(w)
  \/ finalizeShutdown(w)
  \/ ForceShutdown(w)

\* worker graceful shutdown
WorkerDown == \E w \in Workers : Shutdown(w)

\* server start-up
ServerInit ==
  \/ ServerStart
  \/ ServerInitResume
  \/ ServerInitDelPaused
  \/ ServerInitDelMeta
  \/ ServerInitDone

\* server start-up and POST /jobs on a queue that is not paused
Submission ==
  \/ ServerInit
  \/ \E id \in Jobs, name \in FileNames : SubmitUpload(id, name)
  \/ SubmitCheckPaused
  \/ SubmitAdd

\* the forced resumes of POST /jobs and of the health check
ForcedResume ==
  \/ SubmitResume
  \/ SubmitDelPaused
  \/ SubmitDelMeta
  \/ HealthCheck

Next == Processing \/ WorkerUp \/ WorkerDown \/ Submission \/ ForcedResume

Spec == Init /\ [][Next]_vars

\* clients that use FifoJobs job ids and upload files of one name; no
\* worker is killed, no job timeout, no lock expiry
NextFifo ==
  \/ Processing \/ Startup \/ WorkerDown \/ ServerInit \/ ForcedResume
  \/ \E id \in Jobs : SubmitUpload(id, "a.pdf")
  \/ SubmitCheckPaused
  \/ SubmitAdd

SpecFifo ==
  InitWith(FifoJobs, NumWorkers, MaxSubmits, 0, 0) /\ [][NextFifo]_vars

\* job timeouts, without shutdowns
NextTimeout ==
  \/ Processing \/ WorkerUp \/ Submission
  \/ \E r \in runs : Timeout(r)
  \/ \E r \in runs : Settle(r)

SpecTimeout == Init /\ [][NextTimeout]_vars

\* stalled jobs of one submission, without shutdowns
NextStall ==
  \/ Processing \/ WorkerUp \/ Submission
  \/ \E j \in Jobs : LockExpire(j)
  \/ \E j \in Jobs : LockLapse(j)
  \/ \E w \in Workers, j \in Jobs : StallCheck(w, j)

SpecStall ==
  InitWith(MaxJobs, NumWorkers, 1, 0, MaxExpiries) /\ [][NextStall]_vars

\* retention: the server and the workers are up, c completed and f failed
\* jobs are retained (any c and f the limits allow) and one more job waits
InitRetention ==
  \E c \in 0..removeOnComplete, f \in 0..removeOnFail :
    LET last == removeOnComplete + removeOnFail + 1
        isDone(j) == j <= c
        isFailed(j) == j > removeOnComplete /\ j <= removeOnComplete + f
        known(j) == isDone(j) \/ isFailed(j) \/ j = last
    IN /\ wait = <<last>> /\ paused = <<>> /\ metaPaused = FALSE
       /\ active = {} /\ delayed = {}
       /\ completed = [i \in 1..c |-> i]
       /\ failed = [i \in 1..f |-> removeOnComplete + i]
       /\ job = [j \in 1..last |->
                  IF isDone(j)
                  THEN [NoJob EXCEPT !.exists = TRUE, !.data = "a.pdf",
                                     !.timestamp = j,
                                     !.progress = 100, !.leases = 1]
                  ELSE IF isFailed(j)
                  THEN [NoJob EXCEPT !.exists = TRUE, !.data = "a.pdf",
                                     !.timestamp = j,
                                     !.progress = 25, !.leases = attempts,
                                     !.attemptsMade = attempts,
                                     !.delay = exponential(attempts - 1),
                                     !.failedReason = "parse failed"]
                  ELSE IF j = last
                  THEN [NoJob EXCEPT !.exists = TRUE, !.data = "a.pdf",
                                     !.timestamp = j]
                  ELSE NoJob]
       /\ runs = {}
       /\ wpc = [w \in 1..NumWorkers |-> "ready"]
       /\ timer = [w \in 1..NumWorkers |-> "off"]
       /\ seen = [w \in 1..NumWorkers |-> FALSE]
       /\ spc = "idle" /\ req = NoReq
       /\ resp = [id |-> last, status |-> "queued", dup |-> FALSE]
       /\ hpc = "idle"
       /\ files = [j \in 1..last |-> IF known(j) THEN {"a.pdf"} ELSE {}]
       /\ result = [j \in 1..last |->
                      IF isDone(j)
                      THEN [parseFile("a.pdf", PlainPdf) EXCEPT !.stage = "final"]
                      ELSE NoResult]
       /\ pdf = [j \in 1..last |-> PlainPdf]
       /\ errorLog = [j \in 1..last |-> isFailed(j)]
       /\ count = [submits |-> 0, timeouts |-> 0, expiries |-> 0]
       /\ limits = LimiterIdle

SpecRetention == InitRetention /\ [][Processing]_vars

\* the file and layer names of the parsed documents
ParserFileNames == {"a.pdf", "gold-foil-card.pdf", "uv-emboss.pdf"}

LayerNames ==
  <<"Gold Foil", "Artwork", "Spot UV", "Emboss", "Die Cut", "Edge Paint">>

\* the documents clients upload: without optional content groups, or with
\* up to MaxLayers of them, each of which the tools render one way or not at
\* all; the page renders or not, and the fallback masks can be written or not
Documents ==
  {[ocProps |-> FALSE, layerNames |-> <<>>, render |-> <<>>,
    albedo |-> a, sharp |-> s] : a \in BOOLEAN, s \in BOOLEAN}
  \cup
  UNION {{[ocProps |-> TRUE, layerNames |-> SubSeq(LayerNames, 1, n),
           render |-> m, albedo |-> a, sharp |-> TRUE] :
            m \in [1..n -> {Isolated, FullPage, Unrendered}], a \in BOOLEAN} :
         n \in 0..Least(MaxLayers, Len(LayerNames))}

\* parsing: the server and the worker are up and one job waits, uploaded
\* under the file name and with the document of one of the inputs
InitWithInputs(inputs) ==
  \E input \in inputs :
    /\ wait = <<1>> /\ paused = <<>> /\ metaPaused = FALSE
    /\ active = {} /\ delayed = {} /\ completed = <<>> /\ failed = <<>>
    /\ job = [j \in 1..MaxJobs |->
                IF j = 1
                THEN [NoJob EXCEPT !.exists = TRUE, !.data = input.name,
                                   !.timestamp = 1]
                ELSE NoJob]
    /\ runs = {}
    /\ wpc = [w \in 1..NumWorkers |-> "ready"]
    /\ timer = [w \in 1..NumWorkers |-> "off"]
    /\ seen = [w \in 1..NumWorkers |-> FALSE]
    /\ spc = "idle" /\ req = NoReq
    /\ resp = [id |-> 1, status |-> "queued", dup |-> FALSE]
    /\ hpc = "idle"
    /\ files = [j \in 1..MaxJobs |-> IF j = 1 THEN {input.name} ELSE {}]
    /\ result = [j \in 1..MaxJobs |-> NoResult]
    /\ errorLog = [j \in 1..MaxJobs |-> FALSE]
    /\ pdf = [j \in 1..MaxJobs |-> IF j = 1 THEN input.doc ELSE PlainPdf]
    /\ count = [submits |-> 0, timeouts |-> 0, expiries |-> 0]
    /\ limits = LimiterIdle

\* any of the file names with any of the documents
InitParser ==
  InitWithInputs({[name |-> name, doc |-> doc] :
                    name \in ParserFileNames, doc \in Documents})

SpecParser == InitParser /\ [][Processing]_vars

\* a full pool: the server and the workers are up and PoolJobs jobs wait
InitPool ==
  /\ wait = [i \in 1..PoolJobs |-> i] /\ paused = <<>> /\ metaPaused = FALSE
  /\ active = {} /\ delayed = {} /\ completed = <<>> /\ failed = <<>>
  /\ job = [j \in 1..PoolJobs |->
              [NoJob EXCEPT !.exists = TRUE, !.data = "a.pdf", !.timestamp = j]]
  /\ runs = {}
  /\ wpc = [w \in 1..NumWorkers |-> "ready"]
  /\ timer = [w \in 1..NumWorkers |-> "off"]
  /\ seen = [w \in 1..NumWorkers |-> FALSE]
  /\ spc = "idle" /\ req = NoReq
  /\ resp = [id |-> PoolJobs, status |-> "queued", dup |-> FALSE]
  /\ hpc = "idle"
  /\ files = [j \in 1..PoolJobs |-> {"a.pdf"}]
  /\ result = [j \in 1..PoolJobs |-> NoResult]
  /\ errorLog = [j \in 1..PoolJobs |-> FALSE]
  /\ pdf = [j \in 1..PoolJobs |-> PlainPdf]
  /\ count = [submits |-> 0, timeouts |-> 0, expiries |-> 0]
  /\ limits = LimiterIdle

\* the processing of the waiting jobs, within the backoff delay of the first
\* job that is retried
NextPool ==
  \/ \E w \in Workers : Lease(w)
  \/ \E r \in runs : ProgressStep(r)
  \/ \E r \in runs : ParseFile(r)
  \/ \E r \in runs : SaveResult(r)
  \/ \E r \in runs : SaveErrorLog(r)
  \/ \E r \in runs : Complete(r)
  \/ \E r \in runs : Fail(r)

SpecPool == InitPool /\ [][NextPool]_vars

\* the worker with the highest id keeps running: it gets no signal and is
\* not killed
LastWorker == Cardinality(Workers)

\* the stalled-job check picks up the jobs of processes that are gone
Recovery ==
  \/ \E j \in Jobs : LockExpire(j)
  \/ \E w \in Workers, j \in Jobs : StallCheck(w, j)

\* one submission to a deployment of PeerWorkers workers, all but the last
\* of which may be shut down; no job timeout.  Every step
\* of a started process is eventually taken (the event loop runs every
\* continuation, every processor run terminates, cron runs the health
\* check); signals, process starts and requests are up to the environment.
NextLive ==
  \/ Processing \/ Startup \/ Submission \/ HealthCheck \/ Recovery
  \/ \E w \in Workers \ {LastWorker} : Shutdown(w)

FairLive ==
  /\ WF_vars(Processing)
  /\ WF_vars(\E w \in Workers : InitResume(w) \/ InitDone(w))
  /\ WF_vars(\E w \in Workers \ {LastWorker} : Shutdown(w) /\ wpc[w] # "ready")
  /\ WF_vars(ServerInitResume \/ ServerInitDelPaused \/ ServerInitDelMeta
               \/ ServerInitDone \/ SubmitCheckPaused \/ SubmitAdd)
  /\ WF_vars(HealthCheck)
  /\ WF_vars(Recovery)

\* one submission to a deployment of PeerWorkers workers, all but the last
\* of which may be killed; same fairness as above
NextRecover ==
  \/ Processing \/ Startup \/ Submission \/ Recovery
  \/ \E w \in Workers \ {LastWorker} : Kill(w)

FairRecover ==
  /\ WF_vars(Processing)
  /\ WF_vars(\E w \in Workers : InitResume(w) \/ InitDone(w))
  /\ WF_vars(ServerInitResume \/ ServerInitDelPaused \/ ServerInitDelMeta
               \/ ServerInitDone \/ SubmitCheckPaused \/ SubmitAdd)
  /\ WF_vars(Recovery)

SpecRecover ==
  InitWith(MaxJobs, PeerWorkers, 1, 0, 0) /\ [][NextRecover]_vars /\ FairRecover

SpecLive == InitWith(MaxJobs, PeerWorkers, 1, 0, 0) /\ [][NextLive]_vars /\ FairLive

TypeOK ==
  /\ metaPaused \in BOOLEAN
  /\ active \subseteq Jobs /\ delayed \subseteq Jobs
  /\ completed \in Seq(Jobs) /\ failed \in Seq(Jobs)
  /\ \A j \in Jobs : job[j].attemptsMade \in Nat


\* ------------------------------------------------------------- properties
\* gracefulShutdown has been entered and its parseQueue.pause() has returned
ShuttingDown(w) == wpc[w] \in {"sd_read", "sd_decide", "sd_wait",
                               "poll_decide", "closing"}

\* C1: exclusive lease - for every job id at most one processor run is
\* executing at any time, also after a job timeout (or a stalled-lease
\* reclaim) has returned the job to the queue while the earlier run still
\* executes.
C1_ExclusiveLease ==
  \A j \in Jobs : Cardinality({r \in runs : r.j = j}) <= 1

\* C2: within one attempt (the job stays active under the same lease) the
\* stored progress value never decreases.
C2_ProgressMonotonic ==
  [][\A j \in Jobs :
       (j \in active /\ j \in active' /\ job'[j].leases = job[j].leases)
         => job'[j].progress >= job[j].progress]_vars

\* C3: at the moment initializeQueue of the server or of a worker returns,
\* the queue is not paused.
C3_NotPausedAfterInit ==
  [][((spc = "init_status" /\ spc' = "idle")
       \/ \E w \in Workers : wpc[w] = "resumed" /\ wpc'[w] = "ready")
     => ~metaPaused']_vars

\* C4: bounded retry - every processor failure handled by the broker
\* increments attemptsMade by one; after the increment the job is in delayed
\* while attemptsMade < attempts and in failed exactly when attemptsMade =
\* attempts, so attemptsMade never exceeds attempts.
C4_BoundedRetry ==
  [][\A j \in Jobs :
       /\ (\E r \in runs : /\ r.j = j /\ r.tracked /\ r.pos = ThrownPos
                           /\ r \notin runs' /\ wpc'[r.w] = wpc[r.w])
            => job'[j].attemptsMade = job[j].attemptsMade + 1
       /\ (job'[j].exists /\ job'[j].attemptsMade # job[j].attemptsMade)
            => /\ job'[j].attemptsMade = job[j].attemptsMade + 1
               /\ job'[j].attemptsMade <= attempts
               /\ (job'[j].attemptsMade < attempts
                     <=> (j \in delayed' /\ ~InSeq(failed', j)))
               /\ (job'[j].attemptsMade = attempts
                     <=> (InSeq(failed', j) /\ j \notin delayed'))]_vars

\* C4 witness: a job that used up its three attempts and is failed
C4_Exhausted ==
  \E j \in Jobs : InSeq(failed, j) /\ job[j].attemptsMade = attempts
                  /\ job[j].leases = attempts

C6_DuplicateRejected ==
  resp.dup => resp.status # "queued"

\* C7: while the queue is paused no job becomes active; a run of a job that
\* was already active returns under the pause and its job is completed.
C7_PausedNoLease ==
  [][metaPaused =>
       /\ active' \subseteq active
       /\ \A r \in runs :
            (r.tracked /\ r.pos = LastPos /\ r \notin runs' /\ wpc'[r.w] = wpc[r.w])
              => InSeq(completed', r.j)]_vars

\* C7 witness: the queue is paused, a job is held back and a live worker
\* that has not closed its queue has a free slot
C7_HeldBack ==
  /\ metaPaused /\ paused # <<>>
  /\ \E w \in Workers : Alive(w) /\ wpc[w] # "closing"
                        /\ Cardinality(Tracked(w)) < concurrency

\* C8: a worker process that has begun graceful shutdown (counted from the
\* moment its pause of the queue took effect) starts no new processor run
\* before it exits.
C8_NoLeaseInShutdown ==
  [][\A w \in Workers :
       ShuttingDown(w) =>
         \A r \in runs' : r.w = w =>
           \E q \in runs : q.w = w /\ q.j = r.j /\ q.n = r.n]_vars

\* C9: the force-termination timer is cancelled only when no job is active,
\* and the process exits normally only when no job is active.
C9_TimerKept ==
  [][\A w \in Workers :
       /\ (timer[w] = "armed" /\ timer'[w] = "cancelled") => active = {}
       /\ (wpc[w] # "exit0" /\ wpc'[w] = "exit0") => active = {}]_vars

\* C10: GET result.json returns a manifest for a job only if the job's
\* state is completed.
C10_ResultOnlyCompleted ==
  \A j \in Jobs : GetResult(j) = "manifest" => getState(j) = "completed"

\* C11: every job accepted into the queue eventually reaches completed or
\* failed, as long as one worker process keeps running and every processor
\* run terminates.
C11_EventuallyTerminal ==
  \A j \in 1..MaxJobs : (job[j].exists ~> Terminal(j))

\* C12: a processor run that finds the job's file missing throws "File not
\* found" without invoking the parser and writes no result.json; a job
\* failed for that reason has used exactly its attempt budget.
C12_MissingInput ==
  [][(\A r \in runs :
        (r.pos = 1 /\ job[r.j].data \notin files[r.j]
           /\ r \notin runs' /\ wpc'[r.w] = wpc[r.w])
          => /\ \E q \in runs' : /\ q.j = r.j /\ q.n = r.n /\ q.pos = CatchPos
                                  /\ q.err = "File not found"
             /\ result' = result)
     /\ (\A r \in runs :
           (r.err = "File not found" /\ r \notin runs') => result' = result)
     /\ (\A j \in Jobs :
           (InSeq(failed', j) /\ ~InSeq(failed, j)
              /\ job'[j].failedReason = "File not found")
             => job'[j].attemptsMade = attempts)]_vars

\* C12 witness: a job whose three attempts all found the file missing is
\* failed and has no result.json
C12_FailedMissing ==
  \E j \in Jobs : /\ InSeq(failed, j) /\ job[j].failedReason = "File not found"
                  /\ job[j].leases = attempts /\ job[j].data \notin files[j]
                  /\ result[j] = NoResult /\ ~errorLog[j]

\* the job is active under the lease of a worker process that was killed,
\* and the last worker is running
Orphaned(j) ==
  /\ j \in active
  /\ \E w \in 1..PeerWorkers : job[j].lock = w /\ wpc[w] = "killed"
  /\ Alive(PeerWorkers)

C14_StallLimit ==
  [][\A j \in Jobs :
       (job'[j].exists /\ job'[j].stalledCounter # job[j].stalledCounter)
         => /\ job'[j].stalledCounter = job[j].stalledCounter + 1
            /\ j \in active /\ j \notin active'
            /\ IF job'[j].stalledCounter <= 1
               THEN /\ InSeq(wait', j) \/ InSeq(paused', j)
                    /\ ~InSeq(failed', j)
               ELSE /\ InSeq(failed', j)
                    /\ ~InSeq(wait', j) /\ ~InSeq(paused', j)]_vars

\* C14 witness: a job that stalled a second time is failed
C14_FailedStalled ==
  \E j \in Jobs : /\ InSeq(failed, j) /\ job[j].stalledCounter = 2
                  /\ job[j].failedReason = "stalled" /\ job[j].leases = 2

\* list s is list t without some of its oldest (first) entries
IsTail(s, t) ==
  \E k \in 0..Len(t) : s = SubSeq(t, k + 1, Len(t))

\* C15: at most 10 completed and at most 5 failed jobs are retained, and a
\* terminal list changes only by taking the job that finished as its newest
\* entry and by dropping oldest entries.
C15_Retention ==
  [][/\ Len(completed') <= 10
     /\ Len(failed') <= 5
     /\ completed' # completed
          => \E j \in active : IsTail(completed', Append(completed, j))
     /\ failed' # failed
          => \E j \in active : IsTail(failed', Append(failed, j))]_vars

\* C15 witness: the eleventh completed job pushed the oldest one out
C15_OldestDropped ==
  /\ Len(completed) = removeOnComplete
  /\ ~InSeq(completed, 1) /\ ~job[1].exists
  /\ completed[1] = 2
  /\ completed[removeOnComplete] = removeOnComplete + removeOnFail + 1

\* C16: when a job becomes active, every job that was enqueued before it
\* has become active already, for jobs that have neither failed nor stalled.
C16_Fifo ==
  [][\A a \in Jobs, b \in Jobs :
       (/\ b \notin active /\ b \in active'
        /\ job[a].exists /\ job[b].exists
        /\ job[a].timestamp < job[b].timestamp
        /\ job[a].attemptsMade = 0 /\ job[a].stalledCounter = 0
        /\ job[b].attemptsMade = 0 /\ job[b].stalledCounter = 0)
         => job[a].leases >= 1]_vars

\* C17: the confidence of every manifest is
\* min(0.98, 0.3 + min(0.4, 0.1 * layers) + min(0.3, 0.05 * maps)), it is at
\* most 0.98 and so below 1.0, and the formula does not decrease when the
\* number of layers or the number of maps grows.
C17_Confidence ==
  /\ \A j \in Jobs :
       result[j].stage # "none" =>
         LET layerCount == Len(result[j].layers)
             mapCount == Cardinality(DOMAIN result[j].maps)
         IN /\ result[j].confidence =
                 Least(980, 300 + Least(400, layerCount * 100)
                                + Least(300, mapCount * 50))
            /\ result[j].confidence <= 980
            /\ result[j].confidence < 1000
  /\ \A layerCount \in 0..MaxLayers, mapCount \in 0..MaxLayers :
       /\ calculateConfidence(layerCount, mapCount)
            <= calculateConfidence(layerCount + 1, mapCount)
       /\ calculateConfidence(layerCount, mapCount)
            <= calculateConfidence(layerCount, mapCount + 1)
       /\ calculateConfidence(layerCount, mapCount) <= 980

\* C17 witness: a job completed with a manifest of five layers and six maps,
\* whose confidence the cap brought down to 0.98
C17_Capped ==
  \E j \in Jobs :
    /\ InSeq(completed, j) /\ result[j].stage = "final"
    /\ Len(result[j].layers) = 5 /\ Cardinality(DOMAIN result[j].maps) = 6
    /\ result[j].confidence = 980

\* C18: a manifest of gold-foil-card.pdf, a document without declared
\* layers, has exactly one layer: a foil effect of subtype gold with
\* confidence 0.5 and the synthetic bounding box.
C18_GoldFoilFallback ==
  \A j \in Jobs :
    (/\ result[j].stage # "none"
     /\ job[j].exists /\ job[j].data = "gold-foil-card.pdf"
     /\ ~pdf[j].ocProps /\ pdf[j].sharp)
      => /\ Len(result[j].layers) = 1
         /\ result[j].layers[1].effectType = "foil"
         /\ result[j].layers[1].effectSubtype = "gold"
         /\ result[j].layers[1].confidence = 500
         /\ result[j].layers[1].bounds = [x |-> 15, y |-> 35, width |-> 25, height |-> 8]

\* C19: a worker has at most WORKER_CONCURRENCY (3) jobs in processing, and
\* it leases a job only while it has fewer, that is after a job it had was
\* acked or failed.
C19_PoolLimit ==
  [][\A w \in Workers :
       /\ Cardinality({j \in active' : job'[j].lock = w}) <= 3
       /\ Cardinality({r \in runs' : r.w = w /\ r.tracked}) <= 3
       /\ (\E j \in Jobs : j \notin active /\ j \in active' /\ job'[j].lock = w)
            => /\ Cardinality({j \in active : job[j].lock = w}) < 3
               /\ Cardinality({r \in runs : r.w = w /\ r.tracked}) < 3]_vars

\* C19 witness: a worker processes three jobs, the last of the waiting jobs
\* among them: it was leased into the slot of a job that was acked or failed
C19_SlotReused ==
  \E w \in Workers :
    /\ Cardinality({j \in active : job[j].lock = w}) = concurrency
    /\ PoolJobs \in active /\ job[PoolJobs].lock = w
    /\ completed # <<>> \/ delayed # {}

\* C20: in every manifest a fallback layer has a lower confidence than a
\* layer with a rendered mask has, whichever way the mask was rendered.
C20_FallbackBelowRendered ==
  \A j \in Jobs : \A i \in 1..Len(result[j].layers) :
    LET layer == result[j].layers[i]
    IN /\ layer.id.kind = "fallback" =>
            /\ layer.confidence < renderLayerMask(Isolated).confidence
            /\ layer.confidence < renderLayerMask(FullPage).confidence
            /\ \A k \in 1..Len(result[j].layers) :
                 result[j].layers[k].id.kind = "layer"
                   => layer.confidence < result[j].layers[k].confidence
       /\ layer.id.kind = "layer" =>
            /\ fallbackLayerExtraction("gold-foil-card.pdf", TRUE)[1].confidence
                 < layer.confidence
            /\ \A k \in 1..Len(result[j].layers) :
                 result[j].layers[k].id.kind = "fallback"
                   => result[j].layers[k].confidence < layer.confidence

\* C20 witness: a final manifest with a layer whose mask is the whole page
\* (0.7) and a layer whose mask is the isolated layer (0.95)
C20_BothRenderings ==
  \E j \in Jobs :
    /\ result[j].stage = "final"
    /\ \E i \in 1..Len(result[j].layers) : result[j].layers[i].confidence = 700
    /\ \E i \in 1..Len(result[j].layers) : result[j].layers[i].confidence = 950

\* C21: the stored progress of a job changes only while the job is active:
\* a progress call for a job that is not active leaves it unchanged.
C21_ProgressOnlyActive ==
  [][\A j \in Jobs :
       (/\ job[j].exists /\ job'[j].exists
        /\ job'[j].progress # job[j].progress)
         => j \in active]_vars

\* C22: a job that is completed or failed keeps its state: it stays in its
\* terminal set and out of every other queue list, it is not leased again and
\* its attempt count stays, whatever a processor run that was superseded
\* reports later (until the retention policy removes the job).
C22_TerminalAbsorbing ==
  [][\A j \in Jobs :
       (Terminal(j) /\ job'[j].exists)
         => /\ InSeq(completed', j) <=> InSeq(completed, j)
            /\ InSeq(failed', j) <=> InSeq(failed, j)
            /\ j \notin active' /\ j \notin delayed'
            /\ ~InSeq(wait', j) /\ ~InSeq(paused', j)
            /\ job'[j].leases = job[j].leases
            /\ job'[j].attemptsMade = job[j].attemptsMade
            /\ job'[j].failedReason = job[j].failedReason]_vars

\* C22 witness: the job was failed by the stall limit while processor runs
\* of it were still executing; both ran to their end, wrote the final
\* manifest and reported, and the job is still failed
C22_LateAckIgnored ==
  \E j \in Jobs :
    /\ InSeq(failed, j) /\ ~InSeq(completed, j)
    /\ job[j].failedReason = "stalled"
    /\ result[j].stage = "final" /\ job[j].progress = 100
    /\ runs = {}

\* C23: a step of the health check keeps every queued job queued: a job that
\* waits or is held back by the pause before the step is in wait or in
\* paused after it.
C23_ResumeKeepsJobs ==
  [][hpc' # hpc =>
       \A j \in Jobs :
         (InSeq(wait, j) \/ InSeq(paused, j))
           => (InSeq(wait', j) \/ InSeq(paused', j))]_vars

\* C24: a POST /jobs request that is answered with an error (the request
\* was received and the handler is idle again without having enqueued)
\* leaves the directory and the queue record of every existing job as they
\* were.
C24_ErrorLeavesJobs ==
  [][(count'.submits < count.submits /\ spc' = "idle" /\ resp'.status = "error")
       => \A j \in Jobs :
            job[j].exists
              => /\ files'[j] = files[j]
                 /\ result'[j] = result[j]
                 /\ errorLog'[j] = errorLog[j]
                 /\ job'[j] = job[j]]_vars

\* C25: when POST /jobs answers {jobId, status: queued}, the job of that id
\* is queued (waiting, or held back by a pause) and its payload names the
\* file uploaded in that request.
C25_QueuedMeansEnqueued ==
  [][(spc = "add" /\ spc' = "idle" /\ resp'.status = "queued")
       => /\ job'[req.id].exists
          /\ job'[req.id].data = req.name
          /\ InSeq(wait', req.id) \/ InSeq(paused', req.id)]_vars

\* C26: while or after one worker process shuts down, a job that is queued
\* is leasable by every other worker process that is up: it is in wait, not
\* held back in paused.
C26_PeersKeepLeasing ==
  \A w \in Workers, v \in Workers :
    (/\ w # v
     /\ ShuttingDown(w) \/ wpc[w] \in {"exit0", "exit1"}
     /\ wpc[v] = "ready")
      => \A j \in Jobs : ~InSeq(paused, j)

\* C27: when a job becomes completed, result.json holds the final manifest
\* (the parser's manifest with the quality score and the processing record)
\* that the run which reports the completion has written, and that run has
\* met no error; a run whose write of result.json failed ends by failing its
\* attempt.
C27_CompletedAfterManifest ==
  [][\A j \in Jobs :
       (~InSeq(completed, j) /\ InSeq(completed', j))
         => /\ result[j] = [parseFile(job[j].data, pdf[j]) EXCEPT !.stage = "final"]
            /\ \E r \in runs :
                 /\ r.j = j /\ r \notin runs'
                 /\ r.pos = LastPos /\ r.err = "none"
                 /\ result[j] = [r.manifest EXCEPT !.stage = "final"]]_vars

\* C27 witness: the write of result.json failed in the first attempt, which
\* was failed for it, and the job was completed by its second attempt
C27_CompletedAfterFailedWrite ==
  \E j \in Jobs :
    /\ InSeq(completed, j) /\ result[j].stage = "final"
    /\ job[j].attemptsMade = 1 /\ job[j].failedReason = "write failed"

C29_ManifestWrittenOnce ==
  [][\A j \in Jobs :
       (result[j].stage # "none" /\ result'[j].stage # "none")
         => result'[j] = result[j]]_vars

\* C30: in an attempt that follows a retry, the first progress value the
\* processor reports is 5, whatever progress the attempt before reached:
\* the first step of the run stores 5, and nothing else changes the stored
\* progress of the job before that.
C30_RetryStartsAtFive ==
  [][/\ \A r \in runs :
          (r.pos = 0 /\ r.am >= 1 /\ [r EXCEPT !.pos = 1] \in runs')
            => job'[r.j].progress = 5
     /\ \A j \in Jobs :
          (/\ j \in active /\ job[j].attemptsMade >= 1
           /\ \E r \in runs : r.j = j /\ r.tracked /\ r.pos = 0
           /\ job'[j].exists /\ job'[j].progress # job[j].progress)
            => job'[j].progress = 5]_vars

\* C30 witness: the first attempt reached 98 and failed at the write of
\* result.json; the second attempt has reported its first value, 5
C30_SecondAttemptAtFive ==
  \E r \in runs :
    /\ r.pos = 1 /\ r.am = 1 /\ r.tracked
    /\ r.j \in active
    /\ job[r.j].failedReason = "write failed"
    /\ job[r.j].progress = 5

\* ------------------------------------------- the maintenance queue cleanup
\* cleanupQueue deletes job records older than this many milliseconds
cleanupTime == 7 * 24 * 60 * 60 * 1000

\* ages (currentTime - jobData.timestamp) of a job record when the script
\* reads it
Ages == {0, cleanupTime, cleanupTime + 1}

\* cleanupQueue, one key of redis.keys('bull:parse_jobs:*'): the job ids of
\* the model stand for the ids uuidv4() generates, so the key of a job hash
\* passes the UUID test; HGETALL, and DEL when the timestamp is older than
\* cleanupTime.  The state of the job is not looked at.  (The LLEN/LTRIM of
\* the completed and failed keys that follows fails on Bull's sorted sets
\* and is caught: it changes nothing.)
CleanupQueue(j, age) ==
  /\ job[j].exists
  /\ age > cleanupTime
  /\ job' = DelJobs(job, {j})
  /\ UNCHANGED <<wait, paused, metaPaused, active, delayed, completed, failed>>
  /\ UNCHANGED <<runs, workerVars, serverVars, hpc, fsVars>>
  /\ count' = count
  /\ limits' = limits

\* one submission, the workers and the cron cleanup script; no worker is
\* killed or shut down
NextCleanup ==
  \/ Processing \/ Startup \/ Submission
  \/ \E j \in Jobs, age \in Ages : CleanupQueue(j, age)

SpecCleanup ==
  InitWith(MaxJobs, NumWorkers, 1, 0, 0) /\ [][NextCleanup]_vars

\* C31: the queue cleanup deletes the record of a job only if the job is
\* completed or failed; the record of a waiting, paused, delayed or active
\* job is never deleted, whatever its age.
C31_CleanupOnlyTerminal ==
  [][\A j \in Jobs, age \in Ages :
       CleanupQueue(j, age) => Terminal(j)]_vars

\* C32: whenever no layer name is discovered in the document, or OCG mode
\* is disabled, the layers of the manifest are exactly the layers of the
\* fallback classification of the file name, also when the document has an
\* optional-content entry.
C32_NoNamesMeansFallback ==
  \A j \in Jobs :
    (/\ result[j].stage # "none" /\ job[j].exists
     /\ (pdf[j].layerNames = <<>> \/ ~enableOCG))
      => result[j].layers = fallbackLayerExtraction(job[j].data, pdf[j].sharp)

\* ------------------------------------------------- layers of one document
\* layers of a document whose renders vary
MaxRenderLayers == 2

\* pixels in the row of a mask
MaskWidth == 2

\* layers of a document whose names vary
MaxNamedLayers == 2

\* what the tools make of a layer: every size around the threshold with and
\* without a full-page render, the mask opaque; and an isolated render with
\* every mask of alpha values around the cutoff
RenderOutcomes ==
  {[size |-> s, full |-> f, mask |-> [x \in 1..MaskWidth |-> 255]] :
     s \in {0, minMaskBytes, minMaskBytes + 1}, f \in BOOLEAN}
  \cup
  {[size |-> minMaskBytes + 1, full |-> TRUE, mask |-> m] :
     m \in [1..MaskWidth -> {alphaCutoff, alphaCutoff + 1}]}

RenderNames == <<"Gold Foil", "Spot UV", "Emboss">>

\* documents with optional content groups whose layers render in every way
RenderDocuments ==
  UNION {{[ocProps |-> TRUE, layerNames |-> SubSeq(RenderNames, 1, n),
           render |-> m, albedo |-> TRUE, sharp |-> TRUE] :
            m \in [1..n -> RenderOutcomes]} :
         n \in 1..Least(MaxRenderLayers, Len(RenderNames))}

\* the layer names extractLayerNames finds
ClassifyNames ==
  {"Gold Foil", "Artwork", "Spot UV", "Emboss", "Die Cut", "Edge Paint",
   "FOIL Back", "Rear Deboss", "Photo", "Pink Ink", "Spot UV Emboss",
   "Cutting Edge", "Copper", "Backdrop"}

\* lists of n distinct names
NameLists(n) ==
  {s \in [1..n -> ClassifyNames] : \A i, k \in 1..n : s[i] = s[k] => i = k}

\* documents with optional content groups of every name, all of them
\* rendered in isolation
ClassifyDocuments ==
  UNION {{[ocProps |-> TRUE, layerNames |-> names,
           render |-> [i \in 1..n |-> Isolated],
           albedo |-> TRUE, sharp |-> TRUE] : names \in NameLists(n)} :
         n \in 1..MaxNamedLayers}

\* file names of documents without optional content groups
FallbackNames == {"gold-foil-card.pdf", "uv-emboss.pdf", "copper-edge.pdf"}

LayerInputs ==
  {[name |-> "a.pdf", doc |-> doc] : doc \in RenderDocuments \cup ClassifyDocuments}
  \cup {[name |-> name, doc |-> PlainPdf] : name \in FallbackNames}

InitLayers == InitWithInputs(LayerInputs)

SpecLayers == InitLayers /\ [][Processing]_vars

\* C33: a declared layer whose mask neither rendering method produces is
\* the only layer left out: the manifest parseFile returns has a layer for
\* every other effect layer of the document, and none for the failed one.
C33_OnlyFailedLayerOmitted ==
  \A r \in runs :
    (/\ r.pos >= ParseStep /\ r.pos <= LastPos
     /\ pdf[r.j].ocProps /\ enableOCG)
      => /\ r.manifest.stage = "parsed"
         /\ \A i \in 1..Len(pdf[r.j].layerNames) :
              LET out == pdf[r.j].render[i]
                  name == pdf[r.j].layerNames[i]
                  lost == ~(out.size > minMaskBytes) /\ ~out.full
                  present ==
                    \E k \in 1..Len(r.manifest.layers) :
                      /\ r.manifest.layers[k].id = [kind |-> "layer", index |-> i - 1]
                      /\ r.manifest.layers[k].name = name
              IN detectEffectLayer(name) # NoEffect => (present <=> ~lost)

\* C33 witness: the first layer of a document could not be rendered, the
\* second is in the final manifest of the completed job
C33_SecondLayerKept ==
  \E j \in Jobs :
    /\ InSeq(completed, j) /\ result[j].stage = "final"
    /\ Len(pdf[j].layerNames) = 2
    /\ renderLayerMask(pdf[j].render[1]) = NoMask
    /\ Len(result[j].layers) = 1
    /\ result[j].layers[1].id = [kind |-> "layer", index |-> 1]

C35_EmptyMaskFlagged ==
  \A j \in Jobs :
    (result[j].stage # "none" /\ pdf[j].ocProps /\ enableOCG)
      => \A k \in 1..Len(result[j].layers) :
           LET layer == result[j].layers[k]
               empty(l) ==
                 \A x \in 1..Len(pdf[j].render[l.id.index + 1].mask) :
                   pdf[j].render[l.id.index + 1].mask[x] <= 50
           IN empty(layer) =>
                /\ layer.bounds = [x |-> 0, y |-> 0, width |-> 0, height |-> 0]
                /\ \A n \in 1..Len(result[j].layers) :
                     ~empty(result[j].layers[n])
                       => result[j].layers[n].confidence # layer.confidence

\* C36: a layer name is classified by substring match on its lower-cased
\* characters: the effect type is the first type in the order foil, spotUV,
\* emboss, diecut, edge one of whose keywords the name includes, the side is
\* back exactly when the name includes 'back' or 'rear', and a name that
\* includes no keyword is not an effect and gives no layer.
C36_FirstTypeInOrder ==
  /\ [n \in 1..Len(patterns) |-> patterns[n].type]
       = <<"foil", "spotUV", "emboss", "diecut", "edge">>
  /\ \A j \in Jobs :
       (result[j].stage # "none" /\ pdf[j].ocProps /\ enableOCG)
         => \A i \in 1..Len(pdf[j].layerNames) :
              LET name == pdf[j].layerNames[i]
                  lower == toLowerCase(name)
                  matching ==
                    {n \in 1..Len(patterns) :
                       \E k \in 1..Len(patterns[n].keywords) :
                         includes(lower, patterns[n].keywords[k])}
                  made == {k \in 1..Len(result[j].layers) :
                             result[j].layers[k].id.index = i - 1}
                  back == \/ includes(lower, "back")
                          \/ includes(lower, "rear")
              IN /\ matching = {} => made = {}
                 /\ (matching # {} /\ renderLayerMask(pdf[j].render[i]).ok)
                      => \E k \in made :
                           /\ \A n \in matching :
                                result[j].layers[k].effectType = patterns[n].type
                                  <=> \A z \in matching : n <= z
                           /\ result[j].layers[k].side = "back" <=> back
                           /\ result[j].layers[k].side = "front" <=> ~back

\* C36 witness: a final manifest in which 'FOIL Back', which includes foil
\* only after lower-casing, is a foil layer of the back side, and 'Spot UV
\* Emboss' is a spotUV layer of the front side
C36_UpperCaseBackLayer ==
  \E j \in Jobs :
    /\ result[j].stage = "final"
    /\ pdf[j].layerNames = <<"FOIL Back", "Spot UV Emboss">>
    /\ ~includes("FOIL Back", "foil")
    /\ Len(result[j].layers) = 2
    /\ result[j].layers[1].effectType = "foil"
    /\ result[j].layers[1].side = "back"
    /\ result[j].layers[2].effectType = "spotUV"
    /\ result[j].layers[2].side = "front"

\* C37: the fallback classification of a file name gives exactly the effect
\* types of which the per-layer table has a keyword in the name, one layer
\* for each, and the subtype of each is the one the per-layer table gives
\* for that type.
C37_FallbackSameTable ==
  \A j \in Jobs :
    (/\ result[j].stage # "none" /\ job[j].exists
     /\ (~pdf[j].ocProps \/ ~enableOCG) /\ pdf[j].sharp)
      => LET name == job[j].data
             layers == result[j].layers
             inName(p) == SomeIncluded(name, p.keywords)
             perLayer == {n \in 1..Len(patterns) : inName(patterns[n])}
             subtypeOf(n) ==
               LET subs == SelectSeq(patterns[n].subtypes, inName)
               IN IF subs = <<>> THEN "default" ELSE subs[1].sub
         IN /\ {layers[k].effectType : k \in 1..Len(layers)}
                 = {patterns[n].type : n \in perLayer}
            /\ \A n \in perLayer :
                 Cardinality({k \in 1..Len(layers) :
                                layers[k].effectType = patterns[n].type}) = 1
            /\ \A k \in 1..Len(layers), n \in perLayer :
                 layers[k].effectType = patterns[n].type
                   => layers[k].effectSubtype = subtypeOf(n)

\* C38: for every effect type, maps has the type as a key exactly when the
\* manifest has a layer of the type, the list under the key has one entry
\* for each layer of the type, in order and with the layer's side, mask and
\* bounds, the mode of an entry is deboss when the subtype of its layer is
\* recessed and emboss otherwise, and the die-cut reference is the mask of
\* the first diecut layer.
C38_OneEntryPerLayer ==
  \A j \in Jobs :
    result[j].stage # "none"
      => \A t \in EffectTypes :
           LET ofType(l) == l.effectType = t
               ls == SelectSeq(result[j].layers, ofType)
               maps == result[j].maps
           IN /\ t \in DOMAIN maps <=> ls # <<>>
              /\ t \in DOMAIN maps =>
                   /\ Len(maps[t]) = Len(ls)
                   /\ \A i \in 1..Len(ls) :
                        /\ maps[t][i].mask = ls[i].maskFile
                        /\ \A f \in {"side", "mode", "bounds"} : f \in DOMAIN maps[t][i]
                        /\ maps[t][i].mode =
                             IF ls[i].effectSubtype = "recessed"
                             THEN "deboss" ELSE "emboss"

\* -------------------------------------------------------- the rate limiter
\* RATE_LIMIT_WINDOW_MS and RATE_LIMIT_MAX_REQUESTS of the environment
WINDOW_MS == 2
MAX_REQUESTS == 2

\* client addresses
MaxClients == 2

\* milliseconds the clock runs
MaxTime == 4

\* requests that are passed on
MaxPassed == 5

\* requestCounts.get(clientIP) || []
getRequests(clientIP) ==
  IF clientIP \in DOMAIN limits.requestCounts
  THEN limits.requestCounts[clientIP] ELSE <<>>

\* requests.filter(timestamp => timestamp > windowStart)
validOf(requests, windowStart) ==
  LET inWindow(timestamp) == timestamp > windowStart
  IN SelectSeq(requests, inWindow)

\* a limit that lets MAX_REQUESTS + 1 requests pass
overLimitByOne(validRequests) == Len(validRequests) > MAX_REQUESTS

\* validRequests.length >= MAX_REQUESTS
overLimit(validRequests) == Len(validRequests) >= MAX_REQUESTS

\* requestCounts.set(clientIP, list); admitted keeps every request that was
\* passed on, for all time
setRequests(map, clientIP, list) ==
  [ip \in DOMAIN map \cup {clientIP} |-> IF ip = clientIP THEN list ELSE map[ip]]

\* the requests passed on so far
Passed ==
  LET RECURSIVE sum(_)
      sum(ips) == IF ips = {} THEN 0
                  ELSE LET ip == CHOOSE x \in ips : TRUE
                       IN Len(limits.admitted[ip]) + sum(ips \ {ip})
  IN sum(DOMAIN limits.admitted)

\* the middleware for one request: status 200 stands for next()
rateLimitMiddleware(clientIP) ==
  /\ Passed < MaxPassed
  /\ LET now == limits.now
         windowStart == now - WINDOW_MS
         clientRequests == getRequests(clientIP)
         validRequests == validOf(clientRequests, windowStart)
         passed == setRequests(limits.admitted, clientIP,
                               Append(IF clientIP \in DOMAIN limits.admitted
                                      THEN limits.admitted[clientIP] ELSE <<>>, now))
     IN IF limits.nodeEnv = "development"
        THEN limits' = [limits EXCEPT !.admitted = passed,
                                      !.answer = [ip |-> clientIP, status |-> 200]]
        ELSE IF overLimit(validRequests)
        THEN limits' = [limits EXCEPT !.answer = [ip |-> clientIP, status |-> 429]]
        ELSE limits' = [limits EXCEPT
                          !.requestCounts =
                             setRequests(@, clientIP, Append(validRequests, now)),
                          !.admitted = passed,
                          !.answer = [ip |-> clientIP, status |-> 200]]
  /\ UNCHANGED <<redisVars, runs, workerVars, serverVars, hpc, fsVars, count>>

\* the setInterval callback: drops the timestamps that left the window and
\* the clients that have none left
PeriodicCleanup ==
  /\ LET windowStart == limits.now - WINDOW_MS
         kept == {ip \in DOMAIN limits.requestCounts :
                    validOf(limits.requestCounts[ip], windowStart) # <<>>}
     IN limits' = [limits EXCEPT
                     !.requestCounts =
                        [ip \in kept |->
                           validOf(limits.requestCounts[ip], windowStart)]]
  /\ UNCHANGED <<redisVars, runs, workerVars, serverVars, hpc, fsVars, count>>

\* a millisecond passes
Tick ==
  /\ limits.now < MaxTime
  /\ limits' = [limits EXCEPT !.now = @ + 1]
  /\ UNCHANGED <<redisVars, runs, workerVars, serverVars, hpc, fsVars, count>>

\* a server in production or in development mode, before any request
InitLimit ==
  /\ InitQueue(MaxJobs, NumWorkers, 0, 0, 0)
  /\ \E env \in {"production", "development"} :
       limits = [LimiterIdle EXCEPT !.nodeEnv = env]

NextLimit ==
  \/ \E clientIP \in 1..MaxClients : rateLimitMiddleware(clientIP)
  \/ PeriodicCleanup
  \/ Tick

SpecLimit == InitLimit /\ [][NextLimit]_vars

\* C39: outside development mode the limiter passes on at most MAX_REQUESTS
\* requests of a client in every window of WINDOW_MS milliseconds; a request
\* answered 429 changes nothing the limiter remembers, and whether a client
\* is blocked depends only on the requests of the client that were passed on
\* in the last WINDOW_MS milliseconds.
C39_AtMostMaxPerWindow ==
  /\ [](limits.nodeEnv # "development" =>
          /\ \A ip \in DOMAIN limits.admitted :
               \A t \in (0 - WINDOW_MS)..MaxTime :
                 Cardinality({i \in 1..Len(limits.admitted[ip]) :
                                /\ limits.admitted[ip][i] > t
                                /\ limits.admitted[ip][i] <= t + WINDOW_MS})
                   <= MAX_REQUESTS
          /\ \A ip \in 1..MaxClients :
               validOf(getRequests(ip), limits.now - WINDOW_MS)
                 = validOf(IF ip \in DOMAIN limits.admitted
                           THEN limits.admitted[ip] ELSE <<>>,
                           limits.now - WINDOW_MS))
  /\ [][\A ip \in 1..MaxClients :
         (/\ limits.nodeEnv # "development"
          /\ rateLimitMiddleware(ip) /\ limits'.answer.status = 429)
           => /\ limits'.requestCounts = limits.requestCounts
              /\ limits'.admitted = limits.admitted]_vars

\* C39 witness: a client was answered 429 in the millisecond after its two
\* requests were passed on, and the other client was passed on
C39_RejectedInsideWindow ==
  /\ limits.nodeEnv = "production"
  /\ limits.answer = [ip |-> 1, status |-> 429]
  /\ DOMAIN limits.admitted = {1, 2}
  /\ limits.admitted[1] = <<1, 1>> /\ limits.now = 2
  /\ Len(limits.admitted[2]) = 1

====
